---- MODULE Spec2Model ----
(***************************************************************************)
(* A model of github.com/go-ds/skiplist (src/skiplist.go): a skip list     *)
(* keyed by float64, with an update table shared by Insert and Pop, and    *)
(* guarded by one sync.RWMutex.                                            *)
(*                                                                         *)
(* Keys are the integers 1..NumKeys: the list takes the order of its keys  *)
(* to be total, which leaves the NaN keys of float64 out.  Levels are      *)
(* indexed from 0 as in the source: a next array is a function on          *)
(* 0..len-1.  Pointers are cell identifiers; Nil is the nil pointer and    *)
(* Head the sentinel allocated by New.  Cells no pointer leads to are      *)
(* collected, as the Go runtime does.                                      *)
(*                                                                         *)
(* Spec     one caller; every action is a whole method, Lock to Unlock.    *)
(* AcctSpec the same calls, recording the keys ever inserted and removed.  *)
(* ConcSpec goroutines; a method is Lock, its body, the deferred Unlock.   *)
(* RaceSpec ConcSpec with String, which reads the list without the lock.   *)
(* LiveSpec ConcSpec with a bounded number of calls and a fair scheduler.  *)
(* NewSpec  New with any WithMaxLevel argument, then randLevel and calls.  *)
(* ClearSpec one caller, Clear among its bounded number of calls.          *)
(* ScenSpec keys 1, 2, 3 inserted on New() with any levels, then Pop(2).   *)
(* PairSpec the list and its backward-link variant, called side by side.   *)
(***************************************************************************)
EXTENDS Integers, FiniteSets

\* ---- bounds of the model ------------------------------------------------
NumKeys == 2        \* keys are 1..NumKeys
NumValues == 1      \* values are nil (0) and 1..NumValues
TopLevel == 3       \* the list is made by New(WithMaxLevel(TopLevel))
NumSpare == 1       \* node identifiers beyond one per key
NumProcs == 2       \* goroutines calling the list concurrently
NumConcKeys == 1    \* the goroutines use the keys 1..NumConcKeys
ConcLevel == 2      \* the goroutines share a list made by New(WithMaxLevel(ConcLevel))
RandBits == 2       \* the random draws are multiples of 1 / 2^RandBits (1 / 2^63 in the source)
MaxCalls == 4       \* calls the goroutines make in all, where their number is bounded
CtorMargin == 2     \* WithMaxLevel is tried this far outside [minLevel, maxLevel]
MaxListLevel == 4   \* of the lists New returns, those of up to MaxListLevel levels are called

\* ---- program constants ----------------------------------------------------
defaultMaxLevel == 18
minLevel == 1
maxLevelLimit == 64

Nil == -1
Head == 0
NilVal == 0

Keys == 1..NumKeys
Values == 0..NumValues
NodeIds == 1..(NumKeys + NumSpare)
Ptrs == NodeIds \cup {Head}
\* the draws x / 2^RandBits used: 0 and the powers of two, one for each
\* level randLevel can return
Draws == {0} \cup {2^j : j \in 0..(RandBits - 1)}

VARIABLES
    mem,            \* heap: Ptrs -> node (next, key, value)
    maxLevel,       \* list.maxLevel
    level,          \* list.level
    length,         \* list.length
    update,         \* list.update
    mutW,           \* list.mut: a writer holds the lock
    mutR,           \* list.mut: number of readers holding the lock
    pc,             \* per goroutine: "idle", "waiting" (at Lock or RLock), "locked"
                    \* (holds the lock), "done" (body run, unlock deferred)
    op,             \* per goroutine: the method it is in, or "none"
    ret,            \* value returned by the last completed body
    ref,            \* reference map: the keys present -> their values
    last,           \* the last completed call: op, key, found (key was present),
                    \* lvl (list.level before it), prev (for Pop and Delete: the call
                    \* before it, if on the same key)
    everInserted,   \* keys some Insert was called with
    everRemoved,    \* keys some Pop or Delete removed
    ctor,           \* New: state ("opts", "panic", "built"), asked (WithMaxLevel was
                    \* given), n (its argument)
    sample,         \* the last call of randLevel alone: draw x, level lvl, reads of probs
    scen,           \* the scenario: levels sampled for the keys inserted so far, popped
    str,            \* String in progress: by (goroutine or 0), i (loop index), lines
                    \* (level -> keys printed), raced (a writer was inside during a read)
    budget,         \* calls the goroutines may still make
    back            \* the list of the backward-link variant, run side by side: its
                    \* heap mem, level, length and ret (the last value returned)

listVars == <<mem, maxLevel, level, length, update>>
mutVars == <<mutW, mutR>>
procVars == <<pc, op>>
acctVars == <<everInserted, everRemoved>>
auxVars == <<ctor, sample, scen, str, budget, back>>
vars == <<mem, maxLevel, level, length, update, mutW, mutR, pc, op, ret, ref,
          last, everInserted, everRemoved, ctor, sample, scen, str, budget, back>>

Procs == 1..NumProcs

\* ---- nodes ----------------------------------------------------------------
\* make([]*node, n, n)
MakeNext(n) == [i \in 0..(n - 1) |-> Nil]

\* a free (unallocated or collected) cell of the heap
FreeNode == [next |-> MakeNext(0), key |-> 0, value |-> NilVal]

NewNode(lvl, key, value) == [next |-> MakeNext(lvl), key |-> key, value |-> value]

LenNext(m, n) == Cardinality(DOMAIN m[n].next)

\* ---- level sampling -------------------------------------------------------
\* math.Pow(list.prob, i), here with prob = 1/2 (WithProb(0.5)), in units of
\* 1 / 2^RandBits and rounded up: a draw r is x / 2^RandBits with x a
\* natural number, so r < prob^i is x < 2^(RandBits - i), and x < 1 where
\* prob^i is below one unit.
PowProb(i) == IF i <= RandBits THEN 2^(RandBits - i) ELSE 1

\* list.probs: entry 0 is left 0.0
makeProbs(maxLvl) == [i \in 0..(maxLvl - 1) |-> IF i = 0 THEN 0 ELSE PowProb(i)]

\* r < list.probs[lvl], for an lvl that makeProbs filled
BelowProb(x, lvl) == x < PowProb(lvl)

\* a level loop that runs one level too far (lvl <= list.maxLevel)
RECURSIVE randLevelFromPast(_, _, _)
randLevelFromPast(x, lvl, maxLvl) ==
    IF lvl <= maxLvl /\ BelowProb(x, lvl)
    THEN randLevelFromPast(x, lvl + 1, maxLvl)
    ELSE lvl

RECURSIVE randLevelFrom(_, _, _)
randLevelFrom(x, lvl, maxLvl) ==
    IF lvl < maxLvl /\ BelowProb(x, lvl)
    THEN randLevelFrom(x, lvl + 1, maxLvl)
    ELSE lvl

randLevel(x, maxLvl) == randLevelFrom(x, 1, maxLvl)

\* the indices at which randLevel reads list.probs: every lvl below
\* list.maxLevel that the loop reaches, r being below probs[j] for all j < lvl
probsRead(x, maxLvl) ==
    {lvl \in 1..(maxLvl - 1) : \A j \in 1..(lvl - 1) : BelowProb(x, j)}

\* ---- the descent ----------------------------------------------------------
\* a descent that also steps over a node holding the key itself (<= for <)
RECURSIVE AdvancePastKey(_, _, _, _)
AdvancePastKey(m, cur, i, key) ==
    LET nx == m[cur].next[i]
    IN  IF nx # Nil /\ m[nx].key <= key
        THEN AdvancePastKey(m, nx, i, key)
        ELSE cur

\* for cur.next[i] != nil && cur.next[i].key < key { cur = cur.next[i] }
RECURSIVE Advance(_, _, _, _)
Advance(m, cur, i, key) ==
    LET nx == m[cur].next[i]
    IN  IF nx # Nil /\ m[nx].key < key
        THEN Advance(m, nx, i, key)
        ELSE cur

\* Search's loop over the levels: returns cur
RECURSIVE SearchDescend(_, _, _, _)
SearchDescend(m, cur, i, key) ==
    IF i < 0 THEN cur
    ELSE SearchDescend(m, Advance(m, cur, i, key), i - 1, key)

\* a Search that does not compare the key of the node it stops before
SearchValueNoKeyTest(m, lvl, key) ==
    LET cur == SearchDescend(m, Head, lvl - 1, key)
        n == m[cur].next[0]
    IN  IF n # Nil THEN m[n].value ELSE NilVal

\* Search without the lock: the value returned
SearchValue(m, lvl, key) ==
    LET cur == SearchDescend(m, Head, lvl - 1, key)
        n == m[cur].next[0]
    IN  IF n # Nil /\ m[n].key = key THEN m[n].value ELSE NilVal

\* Insert's and Pop's loop over the levels: returns the update table
RECURSIVE Descend(_, _, _, _, _)
Descend(m, cur, i, key, upd) ==
    IF i < 0 THEN upd
    ELSE LET c == Advance(m, cur, i, key)
         IN  Descend(m, c, i - 1, key, [upd EXCEPT ![i] = c])

\* ---- Insert ---------------------------------------------------------------
\* a splice loop that stops above level 0 (i > 0 for i >= 0)
RECURSIVE SpliceAboveZero(_, _, _, _)
SpliceAboveZero(m, upd, n, i) ==
    IF i < 1 THEN m
    ELSE IF upd[i] # Nil
         THEN LET m1 == [m EXCEPT ![n].next[i] = m[upd[i]].next[i]]
                  m2 == [m1 EXCEPT ![upd[i]].next[i] = n]
              IN  SpliceAboveZero(m2, upd, n, i - 1)
         ELSE SpliceAboveZero([m EXCEPT ![Head].next[i] = n], upd, n, i - 1)

\* the splice loop of Insert, from level i down to 0
RECURSIVE Splice(_, _, _, _)
Splice(m, upd, n, i) ==
    IF i < 0 THEN m
    ELSE IF upd[i] # Nil
         THEN LET m1 == [m EXCEPT ![n].next[i] = m[upd[i]].next[i]]
                  m2 == [m1 EXCEPT ![upd[i]].next[i] = n]
              IN  Splice(m2, upd, n, i - 1)
         ELSE Splice([m EXCEPT ![Head].next[i] = n], upd, n, i - 1)

\* ---- the heap -------------------------------------------------------------
\* the successors a cell points to
Succs(m, n) == {m[n].next[i] : i \in DOMAIN m[n].next} \ {Nil}

RECURSIVE ReachFrom(_, _)
ReachFrom(m, S) ==
    LET T == S \cup UNION {Succs(m, n) : n \in S}
    IN  IF T = S THEN S ELSE ReachFrom(m, T)

\* cells the program can still reach: from the head and the update table
Live(m, upd) == ReachFrom(m, {Head} \cup ({upd[i] : i \in DOMAIN upd} \ {Nil}))

\* the garbage collector: cells no pointer leads to are free again
Collect(m, upd) ==
    LET live == Live(m, upd)
    IN  [n \in Ptrs |-> IF n \in live THEN m[n] ELSE FreeNode]

FreeIds(m) == {n \in NodeIds : m[n] = FreeNode}

Min(S) == CHOOSE x \in S : \A y \in S : x <= y

\* &node{...}: the address of the new node (a free cell; which one cannot
\* be observed by the program)
AllocId(m, key) == IF key \in FreeIds(m) THEN key ELSE Min(FreeIds(m))

\* ---- Pop ------------------------------------------------------------------
\* an unlink loop that stops above level 0 (i > 0 for i >= 0)
RECURSIVE UnlinkAboveZero(_, _, _, _)
UnlinkAboveZero(m, upd, n, i) ==
    IF i < 1 THEN m
    ELSE UnlinkAboveZero([m EXCEPT ![upd[i]].next[i] = m[n].next[i]], upd, n, i - 1)

\* an unlink loop that takes the head for the predecessor on every level
RECURSIVE UnlinkFromHead(_, _, _, _)
UnlinkFromHead(m, upd, n, i) ==
    IF i < 0 THEN m
    ELSE UnlinkFromHead([m EXCEPT ![Head].next[i] = m[n].next[i]], upd, n, i - 1)

\* the unlink loop of Pop, from level i down to 0
RECURSIVE Unlink(_, _, _, _)
Unlink(m, upd, n, i) ==
    IF i < 0 THEN m
    ELSE Unlink([m EXCEPT ![upd[i]].next[i] = m[n].next[i]], upd, n, i - 1)

\* list.level--
LowerLevel(lvl) == lvl - 1

\* a lowering of list.level that looks at the top level only
DecreaseOnce(m, lvl, i) ==
    IF i < 1 THEN lvl
    ELSE IF m[Head].next[i] = Nil THEN LowerLevel(lvl) ELSE lvl

\* a lowering loop without the test list.head.next[i] == nil
RECURSIVE DecreaseAll(_, _, _)
DecreaseAll(m, lvl, i) ==
    IF i < 1 THEN lvl
    ELSE DecreaseAll(m, LowerLevel(lvl), i - 1)

\* the loop that lowers list.level, from level i down to 1
RECURSIVE Decrease(_, _, _)
Decrease(m, lvl, i) ==
    IF i < 1 THEN lvl
    ELSE Decrease(m, IF m[Head].next[i] = Nil THEN LowerLevel(lvl) ELSE lvl, i - 1)

\* a Pop that forgets list.length--
PopLengthKept(len) == len

\* list.length--
PopLength(len) == len - 1

\* a Pop that only tests n == nil
PopMissNilOnly(m, n, key) == n = Nil

\* the test that ends Pop early: n == nil || n.key != key
PopMiss(m, n, key) == n = Nil \/ m[n].key # key

\* ---- Insert: the tests and counters ---------------------------------------
\* an Insert whose test for an existing key never succeeds
InsertFoundNever(m, n, key) == n # Nil /\ m[n].key < key

\* the test that makes Insert an update: n != nil && n.key == key
InsertFound(m, n, key) == n # Nil /\ m[n].key = key

\* an Insert whose test for raising list.level is turned around (<  for >)
InsertLevelFlipped(cur, lvl) == IF lvl < cur THEN lvl ELSE cur

\* an update that puts a new node struct in the place of the old one
OverwriteNode(m, n, value) ==
    [m EXCEPT ![n] = NewNode(LenNext(m, n), m[n].key, value)]

\* n.value = value
Overwrite(m, n, value) == [m EXCEPT ![n].value = value]

\* Insert(key, ...) gets past the test for an existing key, to
\* level := list.randLevel()
InsertDraws(key) ==
    LET upd == Descend(mem, Head, level - 1, key, update)
    IN  ~InsertFound(mem, mem[upd[0]].next[0], key)

\* if level > list.level { list.level = level }
InsertLevel(cur, lvl) == IF lvl > cur THEN lvl ELSE cur

\* an Insert that forgets list.length++
InsertLengthKept(len) == len

\* list.length++
InsertLength(len) == len + 1

\* ---- list.mut -------------------------------------------------------------
\* Lock proceeds when no writer and no reader holds the lock
CanLock(w, r) == ~w /\ r = 0

\* an RLock that does not wait for the writer
CanRLockAlways(w, r) == TRUE

\* RLock proceeds when no writer holds the lock
CanRLock(w, r) == ~w

\* ---- initial state: New(WithMaxLevel(n)) ----------------------------------
NoCall == [op |-> "New", key |-> 0, found |-> FALSE, lvl |-> 1, prev |-> "none"]

\* a WithMaxLevel that does not check the upper limit
ValidMaxLevelLow(n) == ~(n < minLevel)

\* WithMaxLevel panics outside [minLevel, maxLevel]
ValidMaxLevel(n) == ~(n < minLevel \/ n > maxLevelLimit)

New(n) ==
    /\ ValidMaxLevel(n)
    /\ maxLevel = n
    /\ mem = [p \in Ptrs |-> IF p = Head
                             THEN [next |-> MakeNext(n), key |-> 0, value |-> NilVal]
                             ELSE FreeNode]
    /\ update = MakeNext(n)
    /\ level = 1
    /\ length = 0
    /\ mutW = FALSE
    /\ mutR = 0

\* randLevel not called alone yet
NoSample == [taken |-> FALSE, x |-> 0, lvl |-> 1, reads |-> {}]

\* no key of the scenario inserted yet
NoScenario == [levels |-> <<>>, popped |-> FALSE]

\* no String in progress
NoString == [by |-> 0, i |-> 0, lines |-> <<>>, raced |-> FALSE]

\* a free cell of the heap of the backward-link variant
FreeBack == [next |-> MakeNext(0), prev |-> MakeNext(0), key |-> 0, value |-> NilVal]

\* the backward-link variant is not run
NoBack == [mem |-> [p \in Ptrs |-> FreeBack], level |-> 1, length |-> 0, ret |-> NilVal]

\* no call made yet
QuietCalls ==
    /\ pc = [p \in Procs |-> "idle"]
    /\ op = [p \in Procs |-> "none"]
    /\ ret = NilVal
    /\ ref = [k \in {} |-> NilVal]
    /\ last = NoCall
    /\ everInserted = {}
    /\ everRemoved = {}
    /\ sample = NoSample
    /\ scen = NoScenario
    /\ str = NoString
    /\ budget = MaxCalls

\* no call made yet, and the backward-link variant not run
Quiet ==
    /\ QuietCalls
    /\ back = NoBack

\* the list New(WithMaxLevel(n)) returned, no call made yet
Fresh ==
    /\ Quiet
    /\ ctor = [state |-> "built", asked |-> TRUE, n |-> maxLevel]

Init == New(TopLevel) /\ Fresh

\* ---- the bodies of the methods (between Lock and the deferred Unlock) -----
SearchBody(key) ==
    /\ ret' = SearchValue(mem, level, key)
    /\ UNCHANGED <<listVars, ref>>

\* Insert with lvls the levels list.randLevel() can return, which the random
\* source decides; randLevel is called only when the key is not in the list
InsertSampled(key, value, lvls) ==
    LET upd == Descend(mem, Head, level - 1, key, update)
        cur == upd[0]
        n == mem[cur].next[0]
    IN  /\ IF InsertFound(mem, n, key)
           THEN /\ mem' = Collect(Overwrite(mem, n, value), upd)
                /\ update' = upd
                /\ UNCHANGED <<level, length>>
           ELSE \E lvl \in lvls :
                LET id == AllocId(mem, key)
                    m1 == [mem EXCEPT ![id] = NewNode(lvl, key, value)]
                    m2 == Splice(m1, upd, id, lvl - 1)
                IN  /\ FreeIds(mem) # {}
                    /\ mem' = Collect(m2, upd)
                    /\ update' = upd
                    /\ level' = InsertLevel(level, lvl)
                    /\ length' = InsertLength(length)
        /\ ret' = NilVal
        /\ ref' = [k \in DOMAIN ref \cup {key} |-> IF k = key THEN value ELSE ref[k]]
        /\ UNCHANGED maxLevel

\* the random source returns a draw x in Draws
InsertBody(key, value) ==
    InsertSampled(key, value, {randLevel(x, maxLevel) : x \in Draws})

\* Pop's result is kept in ret when keep is TRUE (Pop) and discarded
\* otherwise (Delete)
PopBody(key, keep) ==
    LET upd == Descend(mem, Head, level - 1, key, update)
        n == mem[upd[0]].next[0]
    IN  /\ IF PopMiss(mem, n, key)
           THEN /\ mem' = Collect(mem, upd)
                /\ update' = upd
                /\ ret' = NilVal
                /\ UNCHANGED <<level, length>>
           ELSE LET lvl == LenNext(mem, n)
                    m1 == Unlink(mem, upd, n, lvl - 1)
                IN  /\ mem' = Collect(m1, upd)
                    /\ update' = upd
                    /\ level' = IF lvl = level THEN Decrease(m1, level, lvl - 1) ELSE level
                    /\ length' = PopLength(length)
                    /\ ret' = IF keep THEN mem[n].value ELSE NilVal
        /\ ref' = [k \in DOMAIN ref \ {key} |-> ref[k]]
        /\ UNCHANGED maxLevel

LenBody ==
    /\ ret' = length
    /\ UNCHANGED <<listVars, ref>>

\* ---- one caller: each call runs from Lock to Unlock ------------------------
Note(name, key) ==
    /\ last' = [op |-> name, key |-> key, found |-> key \in DOMAIN ref,
                lvl |-> level,
                prev |-> IF name \in {"Pop", "Delete"} /\ last.key = key
                         THEN last.op ELSE "none"]
    /\ UNCHANGED <<mutVars, procVars, acctVars, auxVars>>

Search(key) ==
    /\ CanRLock(mutW, mutR)
    /\ SearchBody(key)
    /\ Note("Search", key)

Insert(key, value) ==
    /\ CanLock(mutW, mutR)
    /\ InsertBody(key, value)
    /\ Note("Insert", key)

Pop(key) ==
    /\ CanLock(mutW, mutR)
    /\ PopBody(key, TRUE)
    /\ Note("Pop", key)

Delete(key) ==
    /\ CanLock(mutW, mutR)
    /\ PopBody(key, FALSE)
    /\ Note("Delete", key)

Len ==
    /\ CanLock(mutW, mutR)
    /\ LenBody
    /\ Note("Len", 0)

Next ==
    \/ \E k \in Keys : Search(k)
    \/ \E k \in Keys, v \in Values : Insert(k, v)
    \/ \E k \in Keys : Pop(k)
    \/ \E k \in Keys : Delete(k)
    \/ Len

Spec == Init /\ [][Next]_vars

\* ---- the same calls, with the keys ever inserted and removed recorded -----
Account(ins, rem) ==
    /\ everInserted' = everInserted \cup ins
    /\ everRemoved' = everRemoved \cup rem
    /\ UNCHANGED <<mutVars, procVars, last, auxVars>>

AcctInsert(key, value) ==
    /\ CanLock(mutW, mutR)
    /\ InsertBody(key, value)
    /\ Account({key}, {})

AcctPop(key) ==
    /\ CanLock(mutW, mutR)
    /\ PopBody(key, TRUE)
    /\ Account({}, IF key \in DOMAIN ref THEN {key} ELSE {})

AcctDelete(key) ==
    /\ CanLock(mutW, mutR)
    /\ PopBody(key, FALSE)
    /\ Account({}, IF key \in DOMAIN ref THEN {key} ELSE {})

AcctLen ==
    /\ CanLock(mutW, mutR)
    /\ LenBody
    /\ Account({}, {})

AcctNext ==
    \/ \E k \in Keys, v \in Values : AcctInsert(k, v)
    \/ \E k \in Keys : AcctPop(k)
    \/ \E k \in Keys : AcctDelete(k)
    \/ AcctLen

AcctSpec == Init /\ [][AcctNext]_vars

\* ---- goroutines: a call is Lock, the body, the deferred Unlock -------------
Readers == {"Search"}
Writers == {"Insert", "Pop", "Delete", "Len"}

\* goroutine p calls the method and reaches its mut.Lock() or mut.RLock()
Call(p, name) ==
    /\ pc[p] = "idle"
    /\ pc' = [pc EXCEPT ![p] = "waiting"]
    /\ op' = [op EXCEPT ![p] = name]
    /\ UNCHANGED <<listVars, mutVars, ret, ref, last, acctVars, auxVars>>

\* list.mut.Lock()
Lock(p) ==
    /\ pc[p] = "waiting" /\ op[p] \in Writers
    /\ CanLock(mutW, mutR)
    /\ mutW' = TRUE
    /\ pc' = [pc EXCEPT ![p] = "locked"]
    /\ UNCHANGED <<listVars, mutR, op, ret, ref, last, acctVars, auxVars>>

\* list.mut.RLock()
RLock(p) ==
    /\ pc[p] = "waiting" /\ op[p] \in Readers
    /\ CanRLock(mutW, mutR)
    /\ mutR' = mutR + 1
    /\ pc' = [pc EXCEPT ![p] = "locked"]
    /\ UNCHANGED <<listVars, mutW, op, ret, ref, last, acctVars, auxVars>>

\* the body of the method goroutine p is in
Ran(p, name) ==
    /\ pc[p] = "locked" /\ op[p] = name
    /\ pc' = [pc EXCEPT ![p] = "done"]
    /\ UNCHANGED <<mutVars, op, last, acctVars, auxVars>>

GoSearch(p, key) == Ran(p, "Search") /\ SearchBody(key)

\* the goroutines store the key as the value, list.Insert(1, 1) as in the tests
GoInsert(p, key) == Ran(p, "Insert") /\ InsertBody(key, key)

GoPop(p, key) == Ran(p, "Pop") /\ PopBody(key, TRUE)

GoDelete(p, key) == Ran(p, "Delete") /\ PopBody(key, FALSE)

GoLen(p) == Ran(p, "Len") /\ LenBody

\* a deferred Unlock that leaves the lock held
UnlockLost(p) ==
    /\ pc[p] = "done" /\ op[p] \in Writers
    /\ mutW' = mutW
    /\ pc' = [pc EXCEPT ![p] = "idle"]
    /\ op' = [op EXCEPT ![p] = "none"]
    /\ UNCHANGED <<listVars, mutR, ret, ref, last, acctVars, auxVars>>

\* defer list.mut.Unlock()
Unlock(p) ==
    /\ pc[p] = "done" /\ op[p] \in Writers
    /\ mutW' = FALSE
    /\ pc' = [pc EXCEPT ![p] = "idle"]
    /\ op' = [op EXCEPT ![p] = "none"]
    /\ UNCHANGED <<listVars, mutR, ret, ref, last, acctVars, auxVars>>

\* defer list.mut.RUnlock()
RUnlock(p) ==
    /\ pc[p] = "done" /\ op[p] \in Readers
    /\ mutR' = mutR - 1
    /\ pc' = [pc EXCEPT ![p] = "idle"]
    /\ op' = [op EXCEPT ![p] = "none"]
    /\ UNCHANGED <<listVars, mutW, ret, ref, last, acctVars, auxVars>>

ConcKeys == 1..NumConcKeys

ConcInit == New(ConcLevel) /\ Fresh

ConcNext ==
    \E p \in Procs :
        \/ \E name \in Readers \cup Writers : Call(p, name)
        \/ Lock(p)
        \/ RLock(p)
        \/ \E k \in ConcKeys : GoSearch(p, k)
        \/ \E k \in ConcKeys : GoInsert(p, k)
        \/ \E k \in ConcKeys : GoPop(p, k)
        \/ \E k \in ConcKeys : GoDelete(p, k)
        \/ GoLen(p)
        \/ Unlock(p)
        \/ RUnlock(p)

ConcSpec == ConcInit /\ [][ConcNext]_vars

\* ---- the shape of the list ------------------------------------------------
\* n.next[i], nil where the node has no level i
NextAt(m, n, i) == IF i \in DOMAIN m[n].next THEN m[n].next[i] ELSE Nil

RECURSIVE Closure(_, _, _)
Closure(m, S, i) ==
    LET T == S \cup ({NextAt(m, n, i) : n \in S} \ {Nil})
    IN  IF T = S THEN S ELSE Closure(m, T, i)

\* the nodes reachable from the head along level i
ReachAt(m, i) == Closure(m, {Head}, i) \ {Head}

\* the number of nodes visited by following next[i] from n until nil
\* (at most fuel of them)
RECURSIVE Visited(_, _, _, _)
Visited(m, n, i, fuel) ==
    IF n = Nil \/ fuel = 0 THEN 0
    ELSE 1 + Visited(m, NextAt(m, n, i), i, fuel - 1)

Levels == 0..(maxLevel - 1)

Max(S) == CHOOSE x \in S : \A y \in S : y <= x

\* what the reference map holds for a key, as Search reports it
Lookup(r, k) == IF k \in DOMAIN r THEN r[k] ELSE NilVal

\* the forward links of the head and of the nodes in the list
LinksOf(m) == [n \in {Head} \cup ReachAt(m, 0) |-> m[n].next]

TypeOK ==
    /\ maxLevel \in minLevel..maxLevelLimit
    /\ level \in 1..maxLevel
    /\ length \in 0..NumKeys
    /\ DOMAIN update = Levels
    /\ \A i \in Levels : update[i] \in Ptrs \cup {Nil}
    /\ DOMAIN mem[Head].next = Levels
    /\ \A n \in Ptrs : \A i \in DOMAIN mem[n].next : mem[n].next[i] \in NodeIds \cup {Nil}
    /\ \A n \in NodeIds : mem[n] = FreeNode \/ (mem[n].key \in Keys /\ mem[n].value \in Values)

\* no pointer of the program leads to a node that left the list
NoGarbage == Live(mem, update) = {Head} \cup ReachAt(mem, 0)

\* ---- C1 -------------------------------------------------------------------
\* C1: Search agrees with a reference key -> value map driven by the same
\* Insert, Pop and Delete calls: for every key, Search returns the value of
\* the latest Insert not yet undone by a removal, and nil when there is none;
\* and the value a Search call returned is the one the map holds.
C1_SearchAgreesWithMap ==
    /\ \A k \in Keys : SearchValue(mem, level, k) = Lookup(ref, k)
    /\ last.op = "Search" => ret = Lookup(ref, last.key)

C1_Witness ==
    /\ last.op = "Search" /\ last.found /\ ret = 1
    /\ length >= 2 /\ level >= 2

\* ---- C2 -------------------------------------------------------------------
\* C2: an Insert on a key already present leaves the length unchanged, a
\* Search for the key then returns the inserted value, and the list holds
\* exactly one node with that key.
C2_Upsert ==
    [][(last'.op = "Insert" /\ last'.found) =>
         /\ length' = length
         /\ SearchValue(mem', level', last'.key) = ref'[last'.key]
         /\ Cardinality({n \in ReachAt(mem', 0) : mem'[n].key = last'.key}) = 1]_vars

C2_Witness ==
    /\ last.op = "Insert" /\ last.found
    /\ ref[last.key] = 1
    /\ length >= 2

\* ---- C3 -------------------------------------------------------------------
\* C3: a Pop(k) that directly follows Insert(k, v) returns v, and a Search(k)
\* after it finds nothing.
C3_RoundTrip ==
    [][(last.op = "Insert" /\ last'.op = "Pop" /\ last'.key = last.key) =>
         /\ ret' = ref[last.key]
         /\ SearchValue(mem', level', last.key) = NilVal]_vars

C3_Witness ==
    /\ last.op = "Pop" /\ last.prev = "Insert" /\ ret = 1
    /\ length >= 1

\* ---- C4 -------------------------------------------------------------------
\* C4: Pop or Delete of a key that is not in the list returns nil and leaves
\* the length, the level and every forward link of the head and of the nodes
\* as they were.
C4_AbsentRemovalIsNoOp ==
    [][(last'.op \in {"Pop", "Delete"} /\ ~last'.found) =>
         /\ ret' = NilVal
         /\ length' = length
         /\ level' = level
         /\ LinksOf(mem') = LinksOf(mem)]_vars

C4_Witness ==
    /\ last.op = "Delete" /\ ~last.found /\ last.prev = "Delete"
    /\ length >= 1 /\ level >= 2

\* ---- C5 -------------------------------------------------------------------
\* C5: on every level, keys strictly increase along the chain from the head.
C5_Ordered ==
    \A i \in Levels : \A n \in ReachAt(mem, i) :
        LET nx == NextAt(mem, n, i)
        IN  nx # Nil => mem[n].key < mem[nx].key

\* a node was inserted before another one, on two levels
C5_Witness ==
    /\ last.op = "Insert" /\ ~last.found /\ last.key = 1
    /\ Cardinality(ReachAt(mem, 0)) >= 2
    /\ maxLevel >= 2 /\ Cardinality(ReachAt(mem, 1)) >= 2

\* ---- C6 -------------------------------------------------------------------
\* C6: a node on level i is on every level below i, and the levels a node
\* is on are exactly the indices of its next array.
C6_MonotoneParticipation ==
    /\ \A i \in Levels : \A j \in 0..(i - 1) : ReachAt(mem, i) \subseteq ReachAt(mem, j)
    /\ \A n \in ReachAt(mem, 0) :
           {i \in Levels : n \in ReachAt(mem, i)} = DOMAIN mem[n].next

C6_Witness ==
    /\ maxLevel >= 3
    /\ last.op = "Insert" /\ ~last.found
    /\ Cardinality(ReachAt(mem, 0)) >= 2
    /\ Cardinality(ReachAt(mem, 1)) = 2
    /\ Cardinality(ReachAt(mem, 2)) = 1

\* ---- C7 -------------------------------------------------------------------
\* C7: list.level is the largest len(node.next) among the nodes of the list,
\* and 1 when the list is empty.
C7_CurrentLevel ==
    level = IF ReachAt(mem, 0) = {} THEN 1
            ELSE Max({LenNext(mem, n) : n \in ReachAt(mem, 0)})

\* a Pop took the only node of the two top levels away
C7_Witness ==
    /\ last.op = "Pop" /\ last.found /\ last.lvl = 3
    /\ level = 1 /\ length >= 1

\* ---- C8 -------------------------------------------------------------------
\* C8: list.length is the number of nodes visited by following next[0] from
\* the head until nil.
C8_Length ==
    length = Visited(mem, mem[Head].next[0], 0, NumKeys + NumSpare + 1)

C8_Witness ==
    /\ last.op = "Delete" /\ last.found /\ length = 1

\* ---- C9 -------------------------------------------------------------------
\* C9 as stated: the length is the number of distinct keys ever inserted
\* minus the number of distinct keys ever removed.
C9_AsStated ==
    length = Cardinality(everInserted) - Cardinality(everRemoved)

\* C9: the length is the number of distinct keys ever inserted minus the
\* number of distinct keys that were removed and not inserted again since.
C9_LengthAccounting ==
    length = Cardinality(everInserted)
             - Cardinality(everRemoved \ DOMAIN ref)

\* one key removed and inserted again, another removed and still out
C9_Witness ==
    /\ everRemoved \cap DOMAIN ref # {}
    /\ everRemoved \ DOMAIN ref # {}
    /\ length >= 1

\* ---- C10 ------------------------------------------------------------------
InBody(p) == pc[p] \in {"locked", "done"}

\* C10: while a goroutine is inside Insert, Pop or Delete no other goroutine
\* is inside Insert, Pop, Delete or Search; and the list the goroutines
\* leave is the one the same bodies leave when run one after the other
\* (Search agrees with the reference map the bodies drive).
C10_WriterExclusion ==
    /\ \A p \in Procs, q \in Procs :
          (p # q /\ InBody(p) /\ op[p] \in {"Insert", "Pop", "Delete"})
              => ~(InBody(q) /\ op[q] \in {"Insert", "Pop", "Delete", "Search"})
    /\ \A k \in Keys : SearchValue(mem, level, k) = Lookup(ref, k)

\* a goroutine is in the body of Insert while another, in Search, waits
C10_Witness ==
    \E p \in Procs, q \in Procs :
        /\ pc[p] = "locked" /\ op[p] = "Insert"
        /\ pc[q] = "waiting" /\ op[q] = "Search"
        /\ length >= 1

\* ---- C11 ------------------------------------------------------------------
\* C11: Search and Len hold only the shared lock: a goroutine inside Search
\* or Len holds the lock as a reader, and a Search waiting for the lock while
\* another goroutine is inside Len can take it.
C11_SharedReads ==
    /\ \A p \in Procs :
          (InBody(p) /\ op[p] \in {"Search", "Len"}) => (~mutW /\ mutR >= 1)
    /\ \A p \in Procs, q \in Procs :
          (InBody(p) /\ op[p] = "Len" /\ pc[q] = "waiting" /\ op[q] = "Search")
              => CanRLock(mutW, mutR)

\* ---- C12 ------------------------------------------------------------------
\* String takes no lock.  A goroutine in String prints a level at a step, so
\* the bodies of the other goroutines run between two of its lines; the two
\* reads of one data race are modelled as the orders they can happen in.

\* the keys String prints on the line of level i + 1
LineOf(m, i) == {m[n].key : n \in ReachAt(m, i)}

\* func (list *SkipList) String() string: no list.mut.RLock()
StringCall(p) ==
    /\ pc[p] = "idle" /\ str.by = 0
    /\ pc' = [pc EXCEPT ![p] = "printing"]
    /\ op' = [op EXCEPT ![p] = "String"]
    /\ str' = [by |-> p, i |-> 0, lines |-> <<>>, raced |-> FALSE]
    /\ UNCHANGED <<listVars, mutVars, ret, ref, last, acctVars,
                   ctor, sample, scen, budget, back>>

\* one turn of for i := 0; i < list.level; i++
StringLine(p) ==
    /\ pc[p] = "printing" /\ str.by = p
    /\ str.i < level
    /\ str' = [str EXCEPT
                  !.i = str.i + 1,
                  !.lines = [j \in 0..str.i |->
                                IF j = str.i THEN LineOf(mem, str.i)
                                             ELSE str.lines[j]],
                  !.raced = str.raced
                            \/ \E q \in Procs \ {p} :
                                  /\ pc[q] \in {"locked", "done"}
                                  /\ op[q] \in {"Insert", "Pop", "Delete"}]
    /\ UNCHANGED <<listVars, mutVars, procVars, ret, ref, last, acctVars,
                   ctor, sample, scen, budget, back>>

\* return sb.String(), once i < list.level fails
StringReturn(p) ==
    /\ pc[p] = "printing" /\ str.by = p
    /\ ~(str.i < level)
    /\ pc' = [pc EXCEPT ![p] = "idle"]
    /\ op' = [op EXCEPT ![p] = "none"]
    /\ str' = [str EXCEPT !.by = 0]
    /\ UNCHANGED <<listVars, mutVars, ret, ref, last, acctVars,
                   ctor, sample, scen, budget, back>>

RaceNext ==
    \/ ConcNext
    \/ \E p \in Procs : StringCall(p)
    \/ \E p \in Procs : StringLine(p)
    \/ \E p \in Procs : StringReturn(p)

RaceSpec == ConcInit /\ [][RaceNext]_vars

\* String printed a key on a level without printing it on the level below
TornDump ==
    \E i \in DOMAIN str.lines, j \in DOMAIN str.lines :
        i < j /\ ~(str.lines[j] \subseteq str.lines[i])

\* C12: every public operation, String included, is concurrency safe: no
\* goroutine reads the list while another goroutine is inside Insert, Pop or
\* Delete, and the dump String returns is never torn (a node printed on some
\* of its levels and not on the others).
C12_ConcurrencySafe == ~str.raced /\ ~TornDump

\* ---- C13 ------------------------------------------------------------------
\* The goroutines make MaxCalls calls in all.

\* a call, counted
LiveCall(p, name) ==
    /\ budget > 0
    /\ budget' = budget - 1
    /\ pc[p] = "idle"
    /\ pc' = [pc EXCEPT ![p] = "waiting"]
    /\ op' = [op EXCEPT ![p] = name]
    /\ UNCHANGED <<listVars, mutVars, ret, ref, last, acctVars,
                   ctor, sample, scen, str, back>>

\* what goroutine p does between its call and its return
Step(p) ==
    \/ Lock(p)
    \/ RLock(p)
    \/ \E k \in ConcKeys : GoSearch(p, k)
    \/ \E k \in ConcKeys : GoInsert(p, k)
    \/ \E k \in ConcKeys : GoPop(p, k)
    \/ \E k \in ConcKeys : GoDelete(p, k)
    \/ GoLen(p)
    \/ Unlock(p)
    \/ RUnlock(p)

LiveNext ==
    \E p \in Procs :
        \/ \E name \in Readers \cup Writers : LiveCall(p, name)
        \/ Step(p)

\* goroutine p can take a step: it holds the lock (its body and its deferred
\* unlock never wait), or it waits for a lock that can be granted now
Runnable(p) ==
    \/ pc[p] \in {"locked", "done"}
    \/ pc[p] = "waiting" /\ op[p] \in Writers /\ CanLock(mutW, mutR)
    \/ pc[p] = "waiting" /\ op[p] \in Readers /\ CanRLock(mutW, mutR)

\* a step of goroutine p between its call and its return: Runnable(p) is
\* ENABLED Step(p), and the steps that move p from there are those of Step(p)
Scheduled(p) ==
    /\ Runnable(p)
    /\ pc' \in [Procs -> {"idle", "waiting", "locked", "done"}]
    /\ pc'[p] # pc[p]

\* the scheduler runs every goroutine that stays runnable
LiveSpec ==
    /\ ConcInit
    /\ [][LiveNext]_vars
    /\ \A p \in Procs : WF_pc(Scheduled(p))

LockFree == ~mutW /\ mutR = 0

\* C13: every call that was made returns, and the lock is free whenever no
\* call is in progress (the deferred unlock runs on every return path, the
\* early returns of Insert and Pop included).
C13_EveryCallReturns ==
    /\ \A p \in Procs : (pc[p] # "idle") ~> (pc[p] = "idle")
    /\ []((\A p \in Procs : pc[p] = "idle") => LockFree)

\* all the calls were made, one an Insert, and all have returned
C13_Witness ==
    /\ budget = 0
    /\ \A p \in Procs : pc[p] = "idle"
    /\ LockFree
    /\ length = 1

\* Runnable(p) is the enabling condition of Step(p), and Scheduled(p) picks
\* out the steps of Step(p): the fairness of LiveSpec is that of Step(p)
RunnableIsEnabled == \A p \in Procs : Runnable(p) <=> ENABLED Step(p)

ScheduledIsStep == [][\A p \in Procs : Scheduled(p) <=> Step(p)]_vars

\* ---- New and its options --------------------------------------------------
\* list := &SkipList{head: &node{}, maxLevel: defaultMaxLevel, level: 1, ...}
NewInit ==
    /\ maxLevel = defaultMaxLevel
    /\ mem = [p \in Ptrs |-> FreeNode]
    /\ update = MakeNext(0)
    /\ level = 1
    /\ length = 0
    /\ mutW = FALSE
    /\ mutR = 0
    /\ Quiet
    /\ ctor = [state |-> "opts", asked |-> FALSE, n |-> 0]

\* the arguments WithMaxLevel is tried with
CtorArgs == (minLevel - CtorMargin)..(maxLevelLimit + CtorMargin)

\* every draw of the random source, r = x / 2^RandBits
AllDraws == 0..(2^RandBits - 1)

\* opt(list), for the option WithMaxLevel(n) returned: the panic leaves New
\* without a list
WithMaxLevel(n) ==
    /\ ctor.state = "opts"
    /\ IF ValidMaxLevel(n)
       THEN /\ maxLevel' = n
            /\ ctor' = [state |-> "opts", asked |-> TRUE, n |-> n]
       ELSE /\ maxLevel' = maxLevel
            /\ ctor' = [state |-> "panic", asked |-> TRUE, n |-> n]
    /\ UNCHANGED <<mem, level, length, update, mutVars, procVars, ret, ref,
                   last, acctVars, sample, scen, str, budget, back>>

\* the options are done: list.head, list.update, makeProbs, return list
NewReturn ==
    /\ ctor.state = "opts"
    /\ mem' = [mem EXCEPT ![Head].next = MakeNext(maxLevel)]
    /\ update' = MakeNext(maxLevel)
    /\ ctor' = [ctor EXCEPT !.state = "built"]
    /\ UNCHANGED <<maxLevel, level, length, mutVars, procVars, ret, ref,
                   last, acctVars, sample, scen, str, budget, back>>

\* list.randLevel() alone, on the list New returned
Sample(x) ==
    /\ ctor.state = "built"
    /\ sample' = [taken |-> TRUE, x |-> x, lvl |-> randLevel(x, maxLevel),
                  reads |-> probsRead(x, maxLevel)]
    /\ UNCHANGED <<listVars, mutVars, procVars, ret, ref, last, acctVars,
                   ctor, scen, str, budget, back>>

\* calls on the list New returned
NewInsert(key) ==
    /\ ctor.state = "built" /\ maxLevel <= MaxListLevel
    /\ InsertBody(key, key)
    /\ UNCHANGED <<mutVars, procVars, last, acctVars, auxVars>>

NewPop(key) ==
    /\ ctor.state = "built" /\ maxLevel <= MaxListLevel
    /\ PopBody(key, TRUE)
    /\ UNCHANGED <<mutVars, procVars, last, acctVars, auxVars>>

NewNext ==
    \/ \E n \in CtorArgs : WithMaxLevel(n)
    \/ NewReturn
    \/ \E x \in AllDraws : Sample(x)
    \/ \E k \in ConcKeys : NewInsert(k)
    \/ \E k \in ConcKeys : NewPop(k)

NewSpec == NewInit /\ [][NewNext]_vars

\* ---- C14 ------------------------------------------------------------------
\* C14: WithMaxLevel(n) with n < 1 or n > 64 panics and New returns no list
\* (nothing is clamped); for n in [1, 64] maxLevel is n, and the list New
\* returns has a head link array and an update table of length n.
C14_MaxLevelChecked ==
    /\ (ctor.asked /\ (ctor.n < 1 \/ ctor.n > 64)) <=> ctor.state = "panic"
    /\ ctor.state = "panic" => DOMAIN mem[Head].next = {} /\ DOMAIN update = {}
    /\ (ctor.asked /\ ctor.state # "panic") => maxLevel = ctor.n
    /\ (ctor.asked /\ ctor.state = "built")
          => /\ DOMAIN mem[Head].next = 0..(ctor.n - 1)
             /\ DOMAIN update = 0..(ctor.n - 1)

\* WithMaxLevel(64) was accepted and WithMaxLevel(65), after it, panicked
C14_Witness == ctor.state = "panic" /\ ctor.n = 65 /\ maxLevel = 64

\* ---- C17 ------------------------------------------------------------------
\* C17: for every maxLevel in [1, 64] and every draw, randLevel returns a
\* level in [1, maxLevel] and reads probs only inside its range; every node
\* of the list has between 1 and maxLevel levels and list.level stays in
\* [1, maxLevel].
C17_LevelBounds ==
    ctor.state = "built" =>
        /\ maxLevel \in 1..64
        /\ sample.lvl \in 1..maxLevel
        /\ sample.reads \subseteq DOMAIN makeProbs(maxLevel)
        /\ \A i \in sample.reads : makeProbs(maxLevel)[i] = PowProb(i)
        /\ \A n \in ReachAt(mem, 0) : LenNext(mem, n) \in 1..maxLevel
        /\ level \in 1..maxLevel

\* maxLevel == 1: randLevel was called and a node was inserted
C17_Witness ==
    /\ ctor.state = "built" /\ maxLevel = 1
    /\ sample.taken /\ sample.x = 0
    /\ length = 1

\* ---- C15 ------------------------------------------------------------------
\* Clear is called by the tests of the repository; its body follows the
\* description of clear(): reset the head's forward links to nil at every
\* level, reset the current level to 1 and the length to 0, under the
\* exclusive lock.  The update table is not part of what it resets.  The one
\* caller makes MaxCalls calls in all.
ClearBody ==
    /\ mem' = Collect([mem EXCEPT ![Head].next = MakeNext(maxLevel)], update)
    /\ level' = 1
    /\ length' = 0
    /\ ret' = NilVal
    /\ ref' = [k \in {} |-> NilVal]
    /\ UNCHANGED <<maxLevel, update>>

\* a call of the one caller, counted
Tally(name, key) ==
    /\ budget > 0
    /\ budget' = budget - 1
    /\ last' = [op |-> name, key |-> key, found |-> key \in DOMAIN ref,
                lvl |-> level, prev |-> "none"]
    /\ UNCHANGED <<mutVars, procVars, acctVars, ctor, sample, scen, str, back>>

Clear ==
    /\ CanLock(mutW, mutR)
    /\ ClearBody
    /\ Tally("Clear", 0)

ClearSearch(key) ==
    /\ CanRLock(mutW, mutR)
    /\ SearchBody(key)
    /\ Tally("Search", key)

ClearInsert(key, value) ==
    /\ CanLock(mutW, mutR)
    /\ InsertBody(key, value)
    /\ Tally("Insert", key)

ClearPop(key) ==
    /\ CanLock(mutW, mutR)
    /\ PopBody(key, TRUE)
    /\ Tally("Pop", key)

ClearNext ==
    \/ \E k \in Keys : ClearSearch(k)
    \/ \E k \in Keys, v \in Values : ClearInsert(k, v)
    \/ \E k \in Keys : ClearPop(k)
    \/ Clear

ClearSpec == Init /\ [][ClearNext]_vars

\* String with no other goroutine running: the keys of each line
StringOf(m, lvl) == [i \in 0..(lvl - 1) |-> LineOf(m, i)]

ScenKeys == <<1, 2, 3>>

ScenInit ==
    /\ New(defaultMaxLevel)
    /\ Quiet
    /\ ctor = [state |-> "built", asked |-> FALSE, n |-> 0]

\* the number of keys inserted so far
ScenDone == Cardinality(DOMAIN scen.levels)

ScenInsert(lvl) ==
    /\ ScenDone < 3 /\ ~scen.popped
    /\ InsertSampled(ScenKeys[ScenDone + 1], ScenKeys[ScenDone + 1], {lvl})
    /\ scen' = [scen EXCEPT !.levels = [j \in 1..(ScenDone + 1) |->
                                          IF j <= ScenDone THEN scen.levels[j] ELSE lvl]]
    /\ UNCHANGED <<mutVars, procVars, last, acctVars, ctor, sample, str, budget, back>>

ScenPop ==
    /\ ScenDone = 3 /\ ~scen.popped
    /\ PopBody(ScenKeys[2], TRUE)
    /\ scen' = [scen EXCEPT !.popped = TRUE]
    /\ UNCHANGED <<mutVars, procVars, last, acctVars, ctor, sample, str, budget, back>>

ScenNext ==
    \/ \E lvl \in 1..maxLevel : ScenInsert(lvl)
    \/ ScenPop

ScenSpec == ScenInit /\ [][ScenNext]_vars

\* C16: once the keys 1, 2, 3 are inserted with the levels 3, 2, 5, the level
\* is 5, the length 3 and Search(2) returns 2; once Pop(2) has run after
\* that, it returned 2, the length is 2, Search(2) finds nothing and the
\* level is still 5.
C16_Scenario ==
    scen.levels = <<3, 2, 5>> =>
        IF ~scen.popped
        THEN /\ level = 5
             /\ length = 3
             /\ SearchValue(mem, level, 2) = 2
        ELSE /\ ret = 2
             /\ length = 2
             /\ SearchValue(mem, level, 2) = NilVal
             /\ level = 5

C16_Witness ==
    /\ scen.levels = <<3, 2, 5>> /\ scen.popped
    /\ ReachAt(mem, 0) = {1, 3} /\ ReachAt(mem, 2) = {1, 3} /\ ReachAt(mem, 4) = {3}

\* ---- C18 ------------------------------------------------------------------
\* C18: an Insert on a key already present does not reach the call of
\* randLevel, allocates no node, and leaves list.level, list.length, the
\* nodes of the list with their keys and the forward links (so len(next)
\* too) of the head and of every node as they were; the only value that can
\* differ is that of the node holding the key.
C18_UpsertFrame ==
    [][(last'.op = "Insert" /\ last'.found) =>
         /\ ~InsertDraws(last'.key)
         /\ FreeIds(mem') = FreeIds(mem)
         /\ level' = level
         /\ length' = length
         /\ LinksOf(mem') = LinksOf(mem)
         /\ \A n \in ReachAt(mem, 0) :
                /\ mem'[n].key = mem[n].key
                /\ mem[n].key # last'.key => mem'[n].value = mem[n].value
                /\ mem[n].key = last'.key => mem'[n].value = ref'[last'.key]]_vars

\* a node of two levels or more, standing before another node, got a new value
C18_Witness ==
    /\ last.op = "Insert" /\ last.found /\ last.key = 1
    /\ ref[1] = 1
    /\ length = 2
    /\ \E n \in ReachAt(mem, 1) : mem[n].key = 1 /\ mem[n].next[1] # Nil

\* ---- C19 ------------------------------------------------------------------
\* the node of the list that holds the key
NodeOf(m, key) == CHOOSE n \in ReachAt(m, 0) : m[n].key = key

\* C19: after a Pop or Delete that found its key, the removed node is on no
\* level of the list; on each level i < len(removed.next) the node that
\* pointed to it points to the node that followed it; every other link of
\* the head and of the remaining nodes is as before; and the update table
\* holds, for each such i, a node whose next[i] was the removed node.
C19_FullUnlink ==
    [][(last'.op \in {"Pop", "Delete"} /\ last'.found) =>
         LET removed == NodeOf(mem, last'.key)
             others == ({Head} \cup ReachAt(mem, 0)) \ {removed}
         IN  /\ \A i \in Levels : removed \notin ReachAt(mem', i)
             /\ ReachAt(mem', 0) = ReachAt(mem, 0) \ {removed}
             /\ \A p \in others :
                    /\ DOMAIN mem'[p].next = DOMAIN mem[p].next
                    /\ \A i \in DOMAIN mem[p].next :
                           mem'[p].next[i] = IF mem[p].next[i] = removed
                                             THEN mem[removed].next[i]
                                             ELSE mem[p].next[i]
             /\ \A i \in DOMAIN mem[removed].next :
                    /\ \E p \in others : i \in DOMAIN mem[p].next /\ mem[p].next[i] = removed
                    /\ update'[i] \in others
                    /\ mem[update'[i]].next[i] = removed]_vars

\* a node of three levels was removed from between the head and a node that
\* followed it on two levels
C19_Witness ==
    /\ last.op = "Pop" /\ last.found /\ last.lvl = 3 /\ last.key = 1
    /\ level = 2 /\ length = 1
    /\ \E n \in ReachAt(mem, 1) : mem[n].key = 2

\* ---- C20 ------------------------------------------------------------------
\* C20: between calls, on every level at or above list.level the head has no
\* successor and the update table holds nil or the head; so after an Insert
\* that raised list.level the new node is, on every level from the old
\* list.level up, the head's successor and the only node, with no successor.
C20_StaleUpdateSafe ==
    /\ \A i \in Levels :
           i >= level => mem[Head].next[i] = Nil /\ update[i] \in {Nil, Head}
    /\ (last.op = "Insert" /\ ~last.found /\ level > last.lvl) =>
           LET n == NodeOf(mem, last.key)
           IN  /\ LenNext(mem, n) = level
               /\ \A i \in last.lvl..(level - 1) :
                      /\ mem[Head].next[i] = n
                      /\ mem[n].next[i] = Nil
                      /\ ReachAt(mem, i) = {n}

\* an Insert raised list.level from 1 to 3 on a list that held a node, after
\* a Pop had lowered it and left the head in the update table above level 1
C20_Witness ==
    /\ last.op = "Insert" /\ ~last.found /\ last.lvl = 1
    /\ level = 3 /\ length = 2
    /\ update[1] = Head /\ update[2] = Head

\* ---- the backward-link variant (src/unnamed/part_002) ----------------------
\* Its nodes carry prev next to next; it has no update table: Insert and Pop
\* look the key up with find, and Pop unlinks through the node's own prev.
\* New(WithMaxLevel(n)) of the variant
BackNew(n) ==
    [mem |-> [p \in Ptrs |->
                 IF p = Head
                 THEN [next |-> MakeNext(n), prev |-> MakeNext(0), key |-> 0, value |-> NilVal]
                 ELSE FreeBack],
     level |-> 1, length |-> 0, ret |-> NilVal]

\* &node{next: make([]*node, level, level), prev: make([]*node, level, level), ...}
BackNode(lvl, key, value) ==
    [next |-> MakeNext(lvl), prev |-> MakeNext(lvl), key |-> key, value |-> value]

\* the loop of find over the levels, from level i down: the node found, or nil
RECURSIVE findFrom(_, _, _, _)
findFrom(m, cur, i, key) ==
    IF i < 0 THEN Nil
    ELSE LET c == Advance(m, cur, i, key)
             nx == m[c].next[i]
         IN  IF nx # Nil /\ m[nx].key = key THEN nx
             ELSE findFrom(m, c, i - 1, key)

find(m, lvl, key) == findFrom(m, Head, lvl - 1, key)

\* a splice loop that leaves the prev of the node after the new one as it was
RECURSIVE BackSpliceNoPrev(_, _, _, _, _)
BackSpliceNoPrev(m, cur, n, i, key) ==
    IF i < 0 THEN m
    ELSE LET c == Advance(m, cur, i, key)
             m2 == [m EXCEPT ![n].prev[i] = c, ![n].next[i] = m[c].next[i]]
             m3 == [m2 EXCEPT ![c].next[i] = n]
         IN  BackSpliceNoPrev(m3, c, n, i - 1, key)

\* the splice loop of Insert, from level i down to 0; cur is kept from one
\* level to the next
RECURSIVE BackSplice(_, _, _, _, _)
BackSplice(m, cur, n, i, key) ==
    IF i < 0 THEN m
    ELSE LET c == Advance(m, cur, i, key)
             m1 == IF m[c].next[i] # Nil
                   THEN [m EXCEPT ![m[c].next[i]].prev[i] = n]
                   ELSE m
             m2 == [m1 EXCEPT ![n].prev[i] = c, ![n].next[i] = m1[c].next[i]]
             m3 == [m2 EXCEPT ![c].next[i] = n]
         IN  BackSplice(m3, c, n, i - 1, key)

\* an unlink loop that stops above level 0 (i > 0 for i >= 0)
RECURSIVE BackUnlinkAboveZero(_, _, _)
BackUnlinkAboveZero(m, n, i) ==
    IF i < 1 THEN m
    ELSE LET m1 == [m EXCEPT ![m[n].prev[i]].next[i] = m[n].next[i]]
             m2 == IF m1[n].next[i] # Nil
                   THEN [m1 EXCEPT ![m1[n].next[i]].prev[i] = m1[n].prev[i]]
                   ELSE m1
         IN  BackUnlinkAboveZero(m2, n, i - 1)

\* the unlink loop of Pop, from level i down to 0
RECURSIVE BackUnlink(_, _, _)
BackUnlink(m, n, i) ==
    IF i < 0 THEN m
    ELSE LET m1 == [m EXCEPT ![m[n].prev[i]].next[i] = m[n].next[i]]
             m2 == IF m1[n].next[i] # Nil
                   THEN [m1 EXCEPT ![m1[n].next[i]].prev[i] = m1[n].prev[i]]
                   ELSE m1
         IN  BackUnlink(m2, n, i - 1)

\* the cells a cell of the variant points to, forward or backward
BackSuccs(m, n) ==
    ({m[n].next[i] : i \in DOMAIN m[n].next} \cup {m[n].prev[i] : i \in DOMAIN m[n].prev})
        \ {Nil}

RECURSIVE BackReachFrom(_, _)
BackReachFrom(m, S) ==
    LET T == S \cup UNION {BackSuccs(m, n) : n \in S}
    IN  IF T = S THEN S ELSE BackReachFrom(m, T)

\* the garbage collector on the heap of the variant
BackCollect(m) ==
    LET live == BackReachFrom(m, {Head})
    IN  [n \in Ptrs |-> IF n \in live THEN m[n] ELSE FreeBack]

BackFreeIds(m) == {n \in NodeIds : m[n] = FreeBack}

BackAllocId(m, key) == IF key \in BackFreeIds(m) THEN key ELSE Min(BackFreeIds(m))

\* Search of the variant, without the lock
BackSearch(key) ==
    LET n == find(back.mem, back.level, key)
    IN  back' = [back EXCEPT !.ret = IF n # Nil THEN back.mem[n].value ELSE NilVal]

\* Insert of the variant, without the lock; lvl is what list.randLevel() returns
BackInsert(key, value, lvl) ==
    LET n == find(back.mem, back.level, key)
    IN  IF n # Nil
        THEN back' = [back EXCEPT !.mem = BackCollect([back.mem EXCEPT ![n].value = value]),
                                  !.ret = NilVal]
        ELSE LET id == BackAllocId(back.mem, key)
                 m1 == [back.mem EXCEPT ![id] = BackNode(lvl, key, value)]
                 m2 == BackSplice(m1, Head, id, lvl - 1, key)
             IN  /\ BackFreeIds(back.mem) # {}
                 /\ back' = [mem |-> BackCollect(m2),
                             level |-> InsertLevel(back.level, lvl),
                             length |-> InsertLength(back.length),
                             ret |-> NilVal]

\* Pop of the variant, without the lock (Delete when keep is FALSE)
BackPop(key, keep) ==
    LET n == find(back.mem, back.level, key)
    IN  IF n = Nil
        THEN back' = [back EXCEPT !.ret = NilVal]
        ELSE LET lvl == LenNext(back.mem, n)
                 m1 == BackUnlink(back.mem, n, lvl - 1)
             IN  back' = [mem |-> BackCollect(m1),
                          level |-> IF lvl = back.level
                                    THEN Decrease(m1, back.level, lvl - 1)
                                    ELSE back.level,
                          length |-> PopLength(back.length),
                          ret |-> IF keep THEN back.mem[n].value ELSE NilVal]

\* ---- the two lists side by side ---------------------------------------------
\* Both lists are made by New(WithMaxLevel(TopLevel)); every call is made on
\* both, with the same arguments and, for Insert, the same sampled level.
PairInit ==
    /\ New(TopLevel)
    /\ QuietCalls
    /\ ctor = [state |-> "built", asked |-> TRUE, n |-> maxLevel]
    /\ back = BackNew(TopLevel)

PairNote(name, key) ==
    /\ last' = [op |-> name, key |-> key, found |-> key \in DOMAIN ref,
                lvl |-> level, prev |-> "none"]
    /\ UNCHANGED <<mutVars, procVars, acctVars, ctor, sample, scen, str, budget>>

PairSearch(key) ==
    /\ CanRLock(mutW, mutR)
    /\ SearchBody(key)
    /\ BackSearch(key)
    /\ PairNote("Search", key)

\* the levels list.randLevel() can return to an Insert of the key; when both
\* lists hold the key neither calls it
PairLevels(key) ==
    IF InsertDraws(key) \/ find(back.mem, back.level, key) = Nil
    THEN {randLevel(x, maxLevel) : x \in Draws}
    ELSE {minLevel}

PairInsert(key, value) ==
    /\ CanLock(mutW, mutR)
    /\ \E lvl \in PairLevels(key) :
          /\ InsertSampled(key, value, {lvl})
          /\ BackInsert(key, value, lvl)
    /\ PairNote("Insert", key)

PairPop(key) ==
    /\ CanLock(mutW, mutR)
    /\ PopBody(key, TRUE)
    /\ BackPop(key, TRUE)
    /\ PairNote("Pop", key)

PairDelete(key) ==
    /\ CanLock(mutW, mutR)
    /\ PopBody(key, FALSE)
    /\ BackPop(key, FALSE)
    /\ PairNote("Delete", key)

PairNext ==
    \/ \E k \in Keys : PairSearch(k)
    \/ \E k \in Keys, v \in Values : PairInsert(k, v)
    \/ \E k \in Keys : PairPop(k)
    \/ \E k \in Keys : PairDelete(k)

PairSpec == PairInit /\ [][PairNext]_vars

\* ---- C21 ------------------------------------------------------------------
\* C21: in the backward-link variant, between calls, every node n of the
\* list has, on every level i < len(n.next), a prev[i] (the head for the
\* first node of the level) whose next[i] is n, and a next[i] that is nil or
\* a node whose prev[i] is n; prev has the length of next; and the nodes the
\* links of the list lead to are the nodes of the list, never a removed one.
C21_BackwardLinks ==
    LET m == back.mem
        nodes == ReachAt(m, 0)
    IN  /\ \A n \in nodes :
               /\ DOMAIN m[n].prev = DOMAIN m[n].next
               /\ \A i \in DOMAIN m[n].next :
                      /\ m[n].prev[i] \in nodes \cup {Head}
                      /\ m[m[n].prev[i]].next[i] = n
                      /\ m[n].next[i] # Nil =>
                             /\ m[n].next[i] \in nodes
                             /\ m[m[n].next[i]].prev[i] = n
        /\ \A i \in Levels : m[Head].next[i] # Nil => m[Head].next[i] \in nodes
        /\ BackReachFrom(m, {Head}) = nodes \cup {Head}

\* a Pop removed a node and left the node of key 2, which is on two levels
\* and has the head for prev on the upper one
C21_Witness ==
    /\ last.op = "Pop" /\ last.found
    /\ back.length = 1 /\ back.level = 2
    /\ \E n \in ReachAt(back.mem, 1) : back.mem[n].prev[1] = Head /\ back.mem[n].key = 2

\* ---- C22 ------------------------------------------------------------------
\* a chain is followed for at most as many nodes as the heap has cells
ChainFuel == NumKeys + NumSpare + 1

\* the k-th node on the chain of level i that starts at n
RECURSIVE NthAt(_, _, _, _)
NthAt(m, n, i, k) == IF k <= 1 THEN n ELSE NthAt(m, NextAt(m, n, i), i, k - 1)

\* the keys on level i, in the order of the chain from the head
KeysAt(m, i) ==
    [k \in 1..Visited(m, m[Head].next[i], i, ChainFuel) |->
        m[NthAt(m, m[Head].next[i], i, k)].key]

\* C22: called side by side with the same arguments and the same sampled
\* levels, the list with the update table and the backward-link variant
\* return the same value from every call, and between calls hold the same
\* length, the same level and the same sequence of keys on every level.
C22_SameBehaviour ==
    /\ ret = back.ret
    /\ length = back.length
    /\ level = back.level
    /\ \A i \in Levels : KeysAt(mem, i) = KeysAt(back.mem, i)

\* a Pop returned 1 from both lists, whose level was 3, and left the node of
\* key 2, which is on two levels or more
C22_Witness ==
    /\ last.op = "Pop" /\ last.found /\ last.lvl = 3
    /\ ret = 1 /\ back.ret = 1
    /\ KeysAt(back.mem, 1) = <<2>> /\ KeysAt(mem, 0) = <<2>>

\* ---- C23 ------------------------------------------------------------------
\* What String writes is kept as its lines, in the order written: a line is
\* the number printed after "level", the key(value) entries in the order
\* printed, and the marker that ends it.

\* an inner loop that stops when cur.next[i] is nil without printing cur
EntriesButLast(m, i) ==
    [k \in 1..(Visited(m, m[Head].next[i], i, ChainFuel) - 1) |->
        LET n == NthAt(m, m[Head].next[i], i, k)
        IN  [key |-> m[n].key, value |-> m[n].value]]

\* for cur.next[i] != nil { cur = cur.next[i]; ... "%f(%v)", cur.key, cur.value }
Entries(m, i) ==
    [k \in 1..Visited(m, m[Head].next[i], i, ChainFuel) |->
        LET n == NthAt(m, m[Head].next[i], i, k)
        IN  [key |-> m[n].key, value |-> m[n].value]]

\* for i := 0; i < list.level; i++, with sb the lines written so far
RECURSIVE StringFrom(_, _, _, _)
StringFrom(m, lvl, i, sb) ==
    IF i < lvl
    THEN LET done == Cardinality(DOMAIN sb)
             line == [num |-> i + 1, entries |-> Entries(m, i), end |-> "nil"]
         IN  StringFrom(m, lvl, i + 1,
                        [j \in 1..(done + 1) |-> IF j <= done THEN sb[j] ELSE line])
    ELSE sb

\* String, with no other goroutine running
String(m, lvl) == StringFrom(m, lvl, 0, <<>>)

\* C23: between calls String writes exactly list.level lines, numbered 1,
\* 2, ... from the bottom level up, each with its keys in ascending order
\* and ended by the nil marker; when the list is not empty every line above
\* the first has an entry; and the first line has every key of the list
\* exactly once, with its value.
C23_DumpShape ==
    LET out == String(mem, level)
    IN  /\ DOMAIN out = 1..level
        /\ \A j \in DOMAIN out :
               /\ out[j].num = j
               /\ out[j].end = "nil"
               /\ \A a \in DOMAIN out[j].entries, b \in DOMAIN out[j].entries :
                      a < b => out[j].entries[a].key < out[j].entries[b].key
               /\ (length > 0 /\ j > 1) => DOMAIN out[j].entries # {}
        /\ {e.key : e \in {out[1].entries[a] : a \in DOMAIN out[1].entries}} = DOMAIN ref
        /\ Cardinality(DOMAIN out[1].entries) = Cardinality(DOMAIN ref)
        /\ \A a \in DOMAIN out[1].entries :
               out[1].entries[a].value = Lookup(ref, out[1].entries[a].key)

\* a list of two keys, one of them on three levels and the other on two
C23_Witness ==
    /\ level = 3 /\ length = 2
    /\ String(mem, level)[1].entries = <<[key |-> 1, value |-> 1], [key |-> 2, value |-> 0]>>
    /\ String(mem, level)[2].entries = <<[key |-> 1, value |-> 1], [key |-> 2, value |-> 0]>>
    /\ String(mem, level)[3].entries = <<[key |-> 2, value |-> 0]>>

====
